---- MODULE Spec2Model ----
(***************************************************************************)
(* Recipe Wizard (src/baking/baking.py): the gram converter, the quantity  *)
(* parser, the regex-driven line annotator and the session state of the    *)
(* Streamlit page.                                                         *)
(*                                                                         *)
(* Text is modelled by TLA+ strings, read character by character with      *)
(* SubSeq.  Python floats are modelled by exact decimal rationals          *)
(*     [n |-> numerator, e |-> decimal exponent, d |-> denominator]        *)
(* standing for n / (d * 10^e); n is an arbitrary-precision natural kept   *)
(* as a little-endian sequence of decimal digits, because the products of  *)
(* the table constants do not fit a 32-bit integer.                        *)
(***************************************************************************)
EXTENDS Integers, Sequences, FiniteSets, TLC

VARIABLES chat_history, recipe_db, posts, rendered, args, ret

vars == <<chat_history, recipe_db, posts, rendered, args, ret>>

session == <<chat_history, recipe_db, posts, rendered>>

(***************************************************************************)
(* Characters and strings (Python str methods used by the program).        *)
(***************************************************************************)
\* s[i - 1], and "" outside the string
Char(s, i) == IF i >= 1 /\ i <= Len(s) THEN SubSeq(s, i, i) ELSE ""

Min(S) == CHOOSE x \in S : \A y \in S : x <= y

Max(S) == CHOOSE x \in S : \A y \in S : x >= y

Whitespace == {" ", "\t", "\n", "\r"}

IsSpace(c) == c \in Whitespace

DigitChars == "0123456789"

UpperChars == "ABCDEFGHIJKLMNOPQRSTUVWXYZ"

LowerChars == "abcdefghijklmnopqrstuvwxyz"

DigitSet == {Char(DigitChars, i) : i \in 1..10}

UpperSet == {Char(UpperChars, i) : i \in 1..26}

LowerSet == {Char(LowerChars, i) : i \in 1..26}

\* \w of the regular expression
WordSet == DigitSet \cup UpperSet \cup LowerSet \cup {"_"}

\* [\d./\s] of the regular expression
QuantitySet == DigitSet \cup {".", "/"} \cup Whitespace

IsDigit(c) == c \in DigitSet

DigitVal(c) == (CHOOSE i \in 1..10 : Char(DigitChars, i) = c) - 1

IsUpper(c) == c \in UpperSet

IsWord(c) == c \in WordSet

LowerChar(c) ==
    IF IsUpper(c)
    THEN Char(LowerChars, CHOOSE i \in 1..26 : Char(UpperChars, i) = c)
    ELSE c

RECURSIVE LowerFrom(_, _)
LowerFrom(s, i) ==
    IF i > Len(s) THEN "" ELSE LowerChar(Char(s, i)) \o LowerFrom(s, i + 1)

\* str.lower()
Lower(s) == LowerFrom(s, 1)

\* where the run of whitespace starting at p ends
RECURSIVE SpaceEnd(_, _)
SpaceEnd(line, p) ==
    IF p > Len(line) \/ ~IsSpace(Char(line, p)) THEN p ELSE SpaceEnd(line, p + 1)

\* before where the run of whitespace ending at p starts
RECURSIVE SpaceStart(_, _)
SpaceStart(line, p) ==
    IF p < 1 \/ ~IsSpace(Char(line, p)) THEN p ELSE SpaceStart(line, p - 1)

\* str.strip(): leading and trailing whitespace removed
Strip(s) == SubSeq(s, SpaceEnd(s, 1), SpaceStart(s, Len(s)))

\* sub in s
Contains(s, sub) ==
    \E i \in 1..(Len(s) - Len(sub) + 1) : SubSeq(s, i, i + Len(sub) - 1) = sub

\* s.find(sub) + 1; 0 when sub does not occur
Find(s, sub) ==
    LET at == {i \in 1..(Len(s) - Len(sub) + 1) : SubSeq(s, i, i + Len(sub) - 1) = sub}
    IN  IF at = {} THEN 0 ELSE Min(at)

\* s.split(sep) for a one-character separator
RECURSIVE Split(_, _)
Split(s, sep) ==
    LET i == Find(s, sep)
    IN  IF i = 0 THEN <<s>>
        ELSE <<SubSeq(s, 1, i - 1)>> \o Split(SubSeq(s, i + 1, Len(s)), sep)

\* s.split(sep, 1)
Split1(s, sep) ==
    LET i == Find(s, sep)
    IN  IF i = 0 THEN <<s>>
        ELSE <<SubSeq(s, 1, i - 1), SubSeq(s, i + 1, Len(s))>>

\* sep.join(parts)
RECURSIVE Join(_, _)
Join(parts, sep) ==
    IF Len(parts) = 0 THEN ""
    ELSE IF Len(parts) = 1 THEN parts[1]
    ELSE parts[1] \o sep \o Join(Tail(parts), sep)

\* s.replace(old, new): every occurrence
RECURSIVE Replace1_Every(_, _, _)
Replace1_Every(s, old, new) ==
    LET i == Find(s, old)
    IN  IF i = 0 \/ old = "" THEN s
        ELSE SubSeq(s, 1, i - 1) \o new
                \o Replace1_Every(SubSeq(s, i + Len(old), Len(s)), old, new)

\* s.replace(old, new, 1)
Replace1(s, old, new) ==
    LET i == Find(s, old)
    IN  IF i = 0 THEN s
        ELSE SubSeq(s, 1, i - 1) \o new \o SubSeq(s, i + Len(old), Len(s))

RECURSIVE NatToStr(_)
NatToStr(n) ==
    IF n < 10 THEN Char(DigitChars, n + 1)
    ELSE NatToStr(n \div 10) \o Char(DigitChars, (n % 10) + 1)

(***************************************************************************)
(* Exact arithmetic standing for the float arithmetic of the program.      *)
(***************************************************************************)
RECURSIVE Pow10(_)
Pow10(e) == IF e = 0 THEN 1 ELSE 10 * Pow10(e - 1)

RECURSIVE BigOfNat(_)
BigOfNat(n) == IF n = 0 THEN <<>> ELSE <<n % 10>> \o BigOfNat(n \div 10)

RECURSIVE BigToNat(_)
BigToNat(x) == IF x = <<>> THEN 0 ELSE Head(x) + 10 * BigToNat(Tail(x))

RECURSIVE BigMulCarry(_, _, _)
BigMulCarry(x, k, carry) ==
    IF x = <<>> THEN BigOfNat(carry)
    ELSE LET t == Head(x) * k + carry
         IN  <<t % 10>> \o BigMulCarry(Tail(x), k, t \div 10)

\* x * k for a natural k below 2 * 10^8
BigMul(x, k) == IF k = 0 THEN <<>> ELSE BigMulCarry(x, k, 0)

\* x * 10^e
BigShift(x, e) == IF x = <<>> THEN <<>> ELSE [i \in 1..e |-> 0] \o x

RECURSIVE BigAddCarry(_, _, _)
BigAddCarry(x, y, carry) ==
    IF x = <<>> /\ y = <<>> THEN BigOfNat(carry)
    ELSE LET a == IF x = <<>> THEN 0 ELSE Head(x)
             b == IF y = <<>> THEN 0 ELSE Head(y)
             t == a + b + carry
         IN  <<t % 10>> \o BigAddCarry(IF x = <<>> THEN x ELSE Tail(x),
                                       IF y = <<>> THEN y ELSE Tail(y),
                                       t \div 10)

BigAdd(x, y) == BigAddCarry(x, y, 0)

\* a decimal literal n * 10^-e of the source, e.g. 4.2 is Dec(42, 1)
Dec(n, e) == [n |-> n, e |-> e]

\* a quantity n / d
Rat(n, d) == [n |-> n, d |-> d]

\* an exact number n / (d * 10^e)
Num(n, e, d) == [n |-> n, e |-> e, d |-> d]

NumOfRat(q) == Num(BigOfNat(q.n), 0, q.d)

\* x * c for a decimal literal c
NumMulDec(x, c) == Num(BigMul(x.n, c.n), x.e + c.e, x.d)

\* x * k for a natural k
NumMulNat(x, k) == Num(BigMul(x.n, k), x.e, x.d)

NumAdd(x, y) ==
    Num(BigAdd(BigShift(BigMul(x.n, y.d), y.e), BigShift(BigMul(y.n, x.d), x.e)),
        x.e + y.e, x.d * y.d)

\* x = y as numbers
NumEq(x, y) ==
    BigShift(BigMul(x.n, y.d), y.e) = BigShift(BigMul(y.n, x.d), x.e)

\* round(x, 1), in tenths: to the nearest tenth, a tie to the even one
Round1(x) ==
    LET y    == IF x.e = 0 THEN Num(BigMul(x.n, 10), 1, x.d) ELSE x
        k    == y.e - 1
        lo   == SubSeq(y.n, 1, Min({k, Len(y.n)}))
        hi   == BigToNat(SubSeq(y.n, k + 1, Len(y.n)))
        q    == hi \div y.d
        r    == hi % y.d
        top  == IF k >= 1 /\ Len(lo) = k THEN lo[k] ELSE 0
        loZero   == \A i \in 1..Len(lo) : lo[i] = 0
        restZero == \A i \in 1..Len(lo) : i < k => lo[i] = 0
        \* the sign of lo / 10^k - 1/2
        cmpHalf  == IF top > 5 THEN 1
                    ELSE IF top < 5 THEN -1
                    ELSE IF restZero THEN 0 ELSE 1
        \* the sign of (the dropped part) - 1/2
        cmp  == IF 2 * r > y.d THEN 1
                ELSE IF 2 * r = y.d THEN (IF loZero THEN 0 ELSE 1)
                ELSE IF 2 * r = y.d - 1 THEN cmpHalf
                ELSE -1
    IN  IF cmp > 0 THEN q + 1
        ELSE IF cmp < 0 THEN q
        ELSE IF q % 2 = 0 THEN q ELSE q + 1

\* f"{grams}" of a float rounded to one decimal place
FormatTenths(t) == NatToStr(t \div 10) \o "." \o NatToStr(t % 10)

(***************************************************************************)
(* The tables.                                                             *)
(***************************************************************************)
load_ingredients_db ==
    ( "all-purpose flour" :> [density |-> Dec(120, 0), temp_factor |-> Dec(2, 2)] ) @@
    ( "bread flour"       :> [density |-> Dec(127, 0), temp_factor |-> Dec(2, 2)] ) @@
    ( "cake flour"        :> [density |-> Dec(112, 0), temp_factor |-> Dec(2, 2)] ) @@
    ( "whole wheat flour" :> [density |-> Dec(130, 0), temp_factor |-> Dec(2, 2)] ) @@
    ( "granulated sugar"  :> [density |-> Dec(200, 0), temp_factor |-> Dec(5, 3)] ) @@
    ( "brown sugar"       :> [density |-> Dec(220, 0), temp_factor |-> Dec(1, 2)] ) @@
    ( "powdered sugar"    :> [density |-> Dec(125, 0), temp_factor |-> Dec(5, 3)] ) @@
    ( "butter"            :> [density |-> Dec(227, 0), temp_factor |-> Dec(5, 2)] ) @@
    ( "vegetable oil"     :> [density |-> Dec(224, 0), temp_factor |-> Dec(1, 2)] ) @@
    ( "milk"              :> [density |-> Dec(242, 0), temp_factor |-> Dec(2, 2)] ) @@
    ( "heavy cream"       :> [density |-> Dec(238, 0), temp_factor |-> Dec(2, 2)] ) @@
    ( "water"             :> [density |-> Dec(237, 0), temp_factor |-> Dec(1, 2)] ) @@
    ( "salt"              :> [density |-> Dec(288, 0), temp_factor |-> Dec(1, 3)] ) @@
    ( "baking powder"     :> [density |-> Dec(192, 0), temp_factor |-> Dec(5, 3)] ) @@
    ( "baking soda"       :> [density |-> Dec(220, 0), temp_factor |-> Dec(5, 3)] ) @@
    ( "cocoa powder"      :> [density |-> Dec(106, 0), temp_factor |-> Dec(2, 2)] ) @@
    ( "honey"             :> [density |-> Dec(340, 0), temp_factor |-> Dec(3, 2)] ) @@
    ( "maple syrup"       :> [density |-> Dec(322, 0), temp_factor |-> Dec(3, 2)] ) @@
    ( "rolled oats"       :> [density |-> Dec(85, 0),  temp_factor |-> Dec(1, 2)] ) @@
    ( "chopped nuts"      :> [density |-> Dec(113, 0), temp_factor |-> Dec(1, 2)] ) @@
    ( "chocolate chips"   :> [density |-> Dec(170, 0), temp_factor |-> Dec(1, 2)] ) @@
    ( "eggs"              :> [density |-> Dec(50, 0),  temp_factor |-> Dec(2, 2), unit |-> "each"] ) @@
    ( "vanilla extract"   :> [density |-> Dec(42, 1),  temp_factor |-> Dec(1, 2), unit |-> "teaspoon"] ) @@
    ( "yeast"             :> [density |-> Dec(3, 0),   temp_factor |-> Dec(5, 3), unit |-> "teaspoon"] )

get_conversion_factors ==
    ( "cup"          :> Dec(1, 0) ) @@
    ( "cups"         :> Dec(1, 0) ) @@
    ( "tablespoon"   :> Dec(625, 4) ) @@
    ( "tablespoons"  :> Dec(625, 4) ) @@
    ( "tbsp"         :> Dec(625, 4) ) @@
    ( "teaspoon"     :> Dec(208333, 7) ) @@
    ( "teaspoons"    :> Dec(208333, 7) ) @@
    ( "tsp"          :> Dec(208333, 7) ) @@
    ( "fluid ounce"  :> Dec(125, 3) ) @@
    ( "fluid ounces" :> Dec(125, 3) ) @@
    ( "fl oz"        :> Dec(125, 3) ) @@
    ( "milliliter"   :> Dec(422675, 8) ) @@
    ( "milliliters"  :> Dec(422675, 8) ) @@
    ( "ml"           :> Dec(422675, 8) ) @@
    ( "liter"        :> Dec(422675, 5) ) @@
    ( "liters"       :> Dec(422675, 5) ) @@
    ( "l"            :> Dec(422675, 5) ) @@
    ( "pint"         :> Dec(2, 0) ) @@
    ( "pints"        :> Dec(2, 0) ) @@
    ( "pt"           :> Dec(2, 0) ) @@
    ( "quart"        :> Dec(4, 0) ) @@
    ( "quarts"       :> Dec(4, 0) ) @@
    ( "qt"           :> Dec(4, 0) ) @@
    ( "gallon"       :> Dec(16, 0) ) @@
    ( "gallons"      :> Dec(16, 0) ) @@
    ( "gal"          :> Dec(16, 0) )

(***************************************************************************)
(* convert_to_grams                                                        *)
(***************************************************************************)
None == [none |-> TRUE]

\* 1 + (temp_factor * temp_diff), the division by 10 left out
density_adjustment_NoTenth(temp_factor, temp_diff) ==
    Dec(Pow10(temp_factor.e) + temp_factor.n * temp_diff, temp_factor.e)

\* 1 + (temp_factor * temp_diff / 10)
density_adjustment(temp_factor, temp_diff) ==
    Dec(Pow10(temp_factor.e + 1) + temp_factor.n * temp_diff, temp_factor.e + 1)

\* density * density_adjustment
adjusted_density(entry, temperature) ==
    LET adj == density_adjustment(entry.temp_factor, temperature - 20)
    IN  Dec(entry.density.n * adj.n, entry.density.e + adj.e)

\* the special-unit test of an ingredient that has a "unit"
IsSpecialUnit(entry, unit) ==
    /\ "unit" \in DOMAIN entry
    /\ (unit = entry.unit \/ unit = entry.unit \o "s")

WeightGrams(quantity, unit) ==
    IF unit \in {"gram", "g", "grams"} THEN NumOfRat(quantity)
    ELSE IF unit \in {"kilogram", "kg", "kilograms"} THEN NumMulNat(NumOfRat(quantity), 1000)
    ELSE IF unit \in {"ounce", "oz", "ounces"} THEN NumMulDec(NumOfRat(quantity), Dec(2835, 2))
    ELSE IF unit \in {"pound", "lb", "pounds"} THEN NumMulDec(NumOfRat(quantity), Dec(45359, 2))
    ELSE None

\* the volume units looked up before the ingredient's own unit
ConvertEntry_VolumeFirst(quantity, unit, entry, temperature) ==
    IF unit \in DOMAIN get_conversion_factors
    THEN NumMulDec(NumMulDec(NumOfRat(quantity), get_conversion_factors[unit]),
                   adjusted_density(entry, temperature))
    ELSE IF IsSpecialUnit(entry, unit)
    THEN NumMulDec(NumOfRat(quantity), adjusted_density(entry, temperature))
    ELSE WeightGrams(quantity, unit)

\* the conversion of a known ingredient, the unit normalized
ConvertEntry(quantity, unit, entry, temperature) ==
    IF IsSpecialUnit(entry, unit)
    THEN NumMulDec(NumOfRat(quantity), adjusted_density(entry, temperature))
    ELSE IF unit \in DOMAIN get_conversion_factors
    THEN NumMulDec(NumMulDec(NumOfRat(quantity), get_conversion_factors[unit]),
                   adjusted_density(entry, temperature))
    ELSE WeightGrams(quantity, unit)

\* the weight units converted before the ingredient is looked up
ConvertNormalized_WeightFirst(quantity, unit, ingredient, temperature) ==
    IF WeightGrams(quantity, unit) # None THEN WeightGrams(quantity, unit)
    ELSE IF ingredient \notin DOMAIN load_ingredients_db THEN None
    ELSE ConvertEntry(quantity, unit, load_ingredients_db[ingredient], temperature)

\* the conversion, the unit and the ingredient normalized
ConvertNormalized(quantity, unit, ingredient, temperature) ==
    IF ingredient \notin DOMAIN load_ingredients_db THEN None
    ELSE ConvertEntry(quantity, unit, load_ingredients_db[ingredient], temperature)

convert_to_grams(quantity, unit, ingredient, temperature) ==
    ConvertNormalized(quantity, Strip(Lower(unit)), Strip(Lower(ingredient)), temperature)

(***************************************************************************)
(* The quantity parser (inside convert_recipe_to_grams).                   *)
(***************************************************************************)
\* the digits of s[1..i] read as a natural number, a "." skipped
RECURSIVE DigitsToNat(_, _)
DigitsToNat(s, i) ==
    IF i = 0 THEN 0
    ELSE IF Char(s, i) = "." THEN DigitsToNat(s, i - 1)
    ELSE DigitVal(Char(s, i)) + 10 * DigitsToNat(s, i - 1)

\* what float() accepts among the texts of digits, dots, slashes and whitespace
IsFloatText(s) ==
    /\ \A i \in 1..Len(s) : IsDigit(Char(s, i)) \/ Char(s, i) = "."
    /\ \E i \in 1..Len(s) : IsDigit(Char(s, i))
    /\ Cardinality({i \in 1..Len(s) : Char(s, i) = "."}) <= 1

FloatOf(s) ==
    IF IsFloatText(s)
    THEN [ok |-> TRUE,
          val |-> Rat(DigitsToNat(s, Len(s)),
                      Pow10(IF Find(s, ".") = 0 THEN 0 ELSE Len(s) - Find(s, ".")))]
    ELSE [ok |-> FALSE]

\* float(s): the value, or not ok for a ValueError
ParseFloat(s) == FloatOf(Strip(s))

ValueError == [kind |-> "ValueError"]

ZeroDivisionError == [kind |-> "ZeroDivisionError"]

Parsed(q) == [kind |-> "ok", val |-> q]

RatAdd(x, y) == Rat(x.n * y.d + y.n * x.d, x.d * y.d)

\* float(num) / float(denom)
Divide(num, denom) ==
    IF ~(num.ok /\ denom.ok) THEN ValueError
    ELSE IF denom.val.n = 0 THEN ZeroDivisionError
    ELSE Parsed(Rat(num.val.n * denom.val.d, num.val.d * denom.val.n))

\* num, denom = parts
FractionOf(parts) ==
    IF Len(parts) # 2 THEN ValueError
    ELSE Divide(ParseFloat(parts[1]), ParseFloat(parts[2]))

\* num, denom = fraction.split("/"); float(num) / float(denom)
ParseFraction(fraction) == FractionOf(Split(fraction, "/"))

\* float(whole) + the fraction
AddWhole(whole, fraction) ==
    IF fraction.kind = "ValueError" \/ ~whole.ok THEN ValueError
    ELSE IF fraction.kind # "ok" THEN fraction
    ELSE Parsed(RatAdd(whole.val, fraction.val))

\* whole, fraction = parts
MixedOf(parts) == AddWhole(ParseFloat(parts[1]), ParseFraction(parts[2]))

\* whole, fraction = quantity_str.split(" ", 1); float(whole) + num / denom
ParseMixed(quantity_str) == MixedOf(Split1(quantity_str, " "))

PlainOf(f) == IF f.ok THEN Parsed(f.val) ELSE ValueError

\* the quantity of a stripped quantity text, or the exception raised
ParseQuantity(quantity_str) ==
    IF Contains(quantity_str, "/")
    THEN IF Contains(quantity_str, " ")
         THEN ParseMixed(quantity_str)
         ELSE ParseFraction(quantity_str)
    ELSE PlainOf(ParseFloat(quantity_str))

(***************************************************************************)
(* ingredient_pattern:                                                     *)
(*   ([\d./\s]+)\s+(\w+(?:\s+\w+)?)\s+(?:of\s+)?(.+?)(?:,|$|\n)            *)
(* matched as re does it: each quantifier tries its alternatives in order  *)
(* (greedy: longest first, lazy: shortest first) and the first that lets   *)
(* the rest of the pattern match is kept.  Positions are 1-based and name  *)
(* the next character to read.                                             *)
(***************************************************************************)
IsQuantityChar(c) == c \in QuantitySet

\* .
IsDot(c) == c # "\n"

\* where the run of \w starting at p ends
RECURSIVE WordEnd(_, _)
WordEnd(line, p) ==
    IF p > Len(line) \/ ~IsWord(Char(line, p)) THEN p ELSE WordEnd(line, p + 1)

\* where the run of [\d./\s] starting at p ends
RECURSIVE QuantityEnd(_, _)
QuantityEnd(line, p) ==
    IF p > Len(line) \/ ~IsQuantityChar(Char(line, p)) THEN p
    ELSE QuantityEnd(line, p + 1)

\* where the run of . starting at p ends
RECURSIVE DotEnd(_, _)
DotEnd(line, p) ==
    IF p > Len(line) \/ ~IsDot(Char(line, p)) THEN p ELSE DotEnd(line, p + 1)

\* $ without re.MULTILINE
AtEnd(line, e) == e = Len(line) + 1 \/ (e = Len(line) /\ Char(line, e) = "\n")

\* whether (?:,|$|\n) matches at e
IsTerminator(line, e) == Char(line, e) = "," \/ AtEnd(line, e) \/ Char(line, e) = "\n"

\* where (?:,|$|\n), matched at e, ends
TerminatorEnd(line, e) ==
    IF Char(line, e) = "," THEN e + 1 ELSE IF AtEnd(line, e) THEN e ELSE e + 1

\* the first terminator behind at least one character of group 3, or 0
RECURSIVE IngredientEnd(_, _)
IngredientEnd(line, e) ==
    IF e > Len(line) + 1 \/ ~IsDot(Char(line, e - 1)) THEN 0
    ELSE IF IsTerminator(line, e) THEN e
    ELSE IngredientEnd(line, e + 1)

\* whether (.+?)(?:,|$|\n) matches from c
IngredientOk(line, c) == c <= Len(line) /\ IngredientEnd(line, c + 1) # 0

\* For the positions of a line, whether and how the rest of the pattern
\* matches from there:
\*   ing    where (.+?)(?:,|$|\n) matches (the starts of group 3)
\*   ofc    the <<b, c>> with (?:of\s+) taken from b to c and c in ing
\*   of     where (?:of\s+)?(.+?)(?:,|$|\n) matches
\*   after  where \s+(?:of\s+)?(.+?)(?:,|$|\n) matches (the ends of a unit)
\*   two    the <<w1, s, w2>> with a second unit word from s to w2, w2 in
\*          after, behind a first unit word ending at w1
\*   first  the <<a, w1>> with a first unit word from a to w1 from which the
\*          rest matches
\*   gap    where \s+(\w+(?:\s+\w+)?)... matches (the ends of a quantity)
\*   start  where the whole pattern matches
TableStart(line, P, t) ==
    [t EXCEPT !.start = {s \in P : \E e1 \in (s + 1)..QuantityEnd(line, s) : e1 \in t.gap}]

TableGap(line, P, t) ==
    TableStart(line, P,
        [t EXCEPT !.gap = {e1 \in P : \E a \in (e1 + 1)..SpaceEnd(line, e1) :
                                         \E aw \in t.first : aw[1] = a}])

TableFirst(line, P, t) ==
    TableGap(line, P,
        [t EXCEPT !.first =
            UNION {{<<a, w1>> : w1 \in {x \in (a + 1)..WordEnd(line, a) :
                                          x \in t.after \/ \E y \in t.two : y[1] = x}} :
                   a \in P}])

TableTwo(line, P, t) ==
    TableFirst(line, P,
        [t EXCEPT !.two =
            UNION {UNION {{<<w1, s, w2>> :
                             w2 \in {x \in (s + 1)..WordEnd(line, s) : x \in t.after}} :
                          s \in (w1 + 1)..SpaceEnd(line, w1)} :
                   w1 \in P}])

TableAfter(line, P, t) ==
    TableTwo(line, P,
        [t EXCEPT !.after = {e2 \in P : \E b \in (e2 + 1)..SpaceEnd(line, e2) :
                                           b \in t.of}])

TableOf(line, P, t) ==
    TableAfter(line, P, [t EXCEPT !.of = t.ing \cup {bc[1] : bc \in t.ofc}])

TableOfc(line, P, t) ==
    TableOf(line, P,
        [t EXCEPT !.ofc =
            UNION {{<<b, c>> : c \in {x \in (b + 3)..SpaceEnd(line, b + 2) : x \in t.ing}} :
                   b \in {x \in P : Char(line, x) = "o" /\ Char(line, x + 1) = "f"}}])

Tables(line) ==
    TableOfc(line, 1..(Len(line) + 1),
        [ing   |-> {c \in 1..Len(line) : IngredientOk(line, c)},
         ofc   |-> {}, of |-> {}, after |-> {}, two |-> {}, first |-> {},
         gap   |-> {}, start |-> {}])

\* The pattern matched at a position s of t.start: every greedy quantifier
\* takes the longest alternative from which the rest still matches, in the
\* order of the pattern.  Each step fixes the next boundary of the match.
MatchEnd(line, m) ==
    [m EXCEPT !.i_end = IngredientEnd(line, m.i_start + 1),
              !.end   = TerminatorEnd(line, IngredientEnd(line, m.i_start + 1))]

MatchOf(line, t, m, b) ==
    MatchEnd(line, [m EXCEPT !.i_start = Max({bc[2] : bc \in {x \in t.ofc : x[1] = b}}
                                              \cup {b})])

MatchUnitGap(line, t, m) ==
    MatchOf(line, t, m, Max({x \in t.of : x > m.u_end /\ x <= SpaceEnd(line, m.u_end)}))

MatchSecondWord(line, t, m, w1, s2) ==
    MatchUnitGap(line, t,
        [m EXCEPT !.u_end = Max({x[3] : x \in {y \in t.two : y[1] = w1 /\ y[2] = s2}}
                                \cup {w1})])

MatchFirstWord(line, t, m, w1) ==
    MatchSecondWord(line, t, m, w1, Max({x[2] : x \in {y \in t.two : y[1] = w1}} \cup {0}))

MatchUnit(line, t, m) ==
    MatchFirstWord(line, t, m, Max({aw[2] : aw \in {x \in t.first : x[1] = m.u_start}}))

MatchQuantityGap(line, t, m) ==
    MatchUnit(line, t,
        [m EXCEPT !.u_start =
            Max({aw[1] : aw \in {x \in t.first :
                                   x[1] > m.q_end /\ x[1] <= SpaceEnd(line, m.q_end)}})])

MatchAt(line, t, s) ==
    MatchQuantityGap(line, t,
        [ok |-> TRUE, start |-> s,
         q_end |-> Max({x \in t.gap : x > s /\ x <= QuantityEnd(line, s)}),
         u_start |-> 0, u_end |-> 0, i_start |-> 0, i_end |-> 0, end |-> 0])

\* the matches after the match m
RECURSIVE FindIterFrom(_, _, _)

FindIterWith(line, t, m) == <<m>> \o FindIterFrom(line, t, m.end)

FindIterAt(line, t, starts) ==
    IF starts = {} THEN <<>> ELSE FindIterWith(line, t, MatchAt(line, t, Min(starts)))

\* re.finditer(ingredient_pattern, line) from pos: the leftmost match, then
\* the matches after its end (a match is never empty)
FindIterFrom(line, t, pos) == FindIterAt(line, t, {s \in t.start : s >= pos})

finditer(line) == FindIterFrom(line, Tables(line), 1)

\* match.groups() and match.group(0)
QuantityGroup(line, m) == SubSeq(line, m.start, m.q_end - 1)

UnitGroup(line, m) == SubSeq(line, m.u_start, m.u_end - 1)

IngredientGroup(line, m) == SubSeq(line, m.i_start, m.i_end - 1)

FullMatch(line, m) == SubSeq(line, m.start, m.end - 1)

(***************************************************************************)
(* convert_recipe_to_grams                                                 *)
(***************************************************************************)
\* "except ValueError:" in place of the bare "except:"
Caught_ValueErrorOnly(kind) == kind = "ValueError"

\* the bare "except:" of the loop body catches every exception
Caught(kind) == TRUE

Raised == [raised |-> TRUE]

Returned(text) == [raised |-> FALSE, text |-> text]

\* f" ({grams}g)" with grams = round(grams, 1)
Annotation(grams) == " (" \o FormatTenths(Round1(grams)) \o "g)"

\* modified_line.replace(full_match, f"{full_match} ({grams}g)", 1) when
\* grams is not None
AnnotateWith(modified_line, full_match, grams) ==
    IF grams = None THEN Returned(modified_line)
    ELSE Returned(Replace1(modified_line, full_match, full_match \o Annotation(grams)))

\* the try block, the quantity parsed or the exception raised
TryAnnotate(modified_line, line, m, quantity, temperature) ==
    IF quantity.kind # "ok"
    THEN IF Caught(quantity.kind) THEN Returned(modified_line) ELSE Raised
    ELSE AnnotateWith(modified_line, FullMatch(line, m),
                      convert_to_grams(quantity.val, UnitGroup(line, m),
                                       IngredientGroup(line, m), temperature))

\* the body of "for match in matches": modified_line after the match
AnnotateMatch(modified_line, line, m, temperature) ==
    TryAnnotate(modified_line, line, m,
                ParseQuantity(Strip(QuantityGroup(line, m))), temperature)

\* "for match in matches" from the i-th match on, modified being what the
\* matches before it left
RECURSIVE AnnotateMatches(_, _, _, _, _)
AnnotateMatches(modified, line, matches, i, temperature) ==
    IF i > Len(matches) \/ modified.raised THEN modified
    ELSE AnnotateMatches(AnnotateMatch(modified.text, line, matches[i], temperature),
                         line, matches, i + 1, temperature)

\* the body of "for line in lines": the line appended to converted_lines
ConvertLine(line, temperature) ==
    IF Strip(line) = "" THEN Returned(line)
    ELSE AnnotateMatches(Returned(line), line, finditer(line), 1, temperature)

\* converted_lines.append(...)
AppendLine(converted, r) ==
    IF converted.raised \/ r.raised THEN [raised |-> TRUE]
    ELSE [raised |-> FALSE, lines |-> Append(converted.lines, r.text)]

\* "for line in lines" from the i-th line on
RECURSIVE ConvertLines(_, _, _, _)
ConvertLines(converted, lines, i, temperature) ==
    IF i > Len(lines) THEN converted
    ELSE ConvertLines(AppendLine(converted, ConvertLine(lines[i], temperature)),
                      lines, i + 1, temperature)

\* recipe_text.split("\n"), the text not stripped
RecipeLines_NoStrip(recipe_text) == Split(recipe_text, "\n")

\* recipe_text.strip().split("\n")
RecipeLines(recipe_text) == Split(Strip(recipe_text), "\n")

\* "\n".join(converted_lines)
JoinLines(converted) ==
    IF converted.raised THEN Raised ELSE Returned(Join(converted.lines, "\n"))

convert_recipe_to_grams(recipe_text, temperature) ==
    JoinLines(ConvertLines([raised |-> FALSE, lines |-> <<>>],
                           RecipeLines(recipe_text), 1, temperature))

(***************************************************************************)
(* generate_recipe and the page: the session state and the two buttons.    *)
(***************************************************************************)
\* how many recipes one session is followed for
MaxRecipes == 2

\* what the text box holds when "Generate Recipe" is clicked
RecipeInputs == {"", "cookies"}

\* positions of the kitchen temperature slider (15 to 35)
KitchenTemps == {20, 30}

\* what requests.post does: it raises, or answers with a status and a body
Replies ==
    { [exception |-> "Connection refused"],
      [status_code |-> 500],
      [status_code |-> 200, json |-> [done |-> TRUE]],
      [status_code |-> 200,
       json |-> [response |-> "Ingredients:\n1 cup butter\n2 cups all-purpose flour, sifted"]],
      [status_code |-> 200,
       json |-> [response |-> "\n1 1/2 cups milk, 2 tsp salt\n\nMix well.\n"]] }

generate_recipe(prompt, reply) ==
    IF "exception" \in DOMAIN reply
    THEN "Error connecting to Ollama: " \o reply.exception
    ELSE IF reply.status_code = 200
    THEN IF "response" \in DOMAIN reply.json
         THEN reply.json.response
         ELSE "Sorry, I couldn't generate a recipe."
    ELSE "Error: " \o NatToStr(reply.status_code)
            \o ". Make sure Ollama is running with TinyLLama model."

\* what the converter pane shows in a run in which its button was not clicked
NoResult == ""

\* the choices offered by the converter pane
UiIngredients == {"butter", "vanilla extract"}

UiUnits == {"cup", "tsp"}

UiQuantities == {Rat(15, 10)}

UiTemps == {35}

NoCall == [fn |-> "none"]

Init ==
    /\ chat_history = <<>>
    /\ recipe_db = [k \in {} |-> 0]
    /\ posts = 0
    /\ rendered = NoResult
    /\ args = NoCall
    /\ ret = NoCall

\* a key that does not count the saved recipes
RecipeKey_Fixed(db) == "recipe_" \o NatToStr(1)

\* recipe_key = f"recipe_{len(st.session_state.recipe_db) + 1}"
RecipeKey(db) == "recipe_" \o NatToStr(Cardinality(DOMAIN db) + 1)

\* st.session_state.recipe_db[recipe_key] = {...}
StoreRecipe(db, key, entry) ==
    [k \in DOMAIN db \cup {key} |-> IF k = key THEN entry ELSE db[k]]

\* the session state stored by the "Generate Recipe" branch
StoreConverted(recipe_input, converted) ==
    IF converted.raised
    THEN UNCHANGED <<chat_history, recipe_db>>
    ELSE /\ recipe_db' = StoreRecipe(recipe_db, RecipeKey(recipe_db),
                            [name |-> recipe_input, recipe |-> converted.text])
         /\ chat_history' = chat_history \o
               << [role |-> "user", content |-> "Generate recipe for " \o recipe_input],
                  [role |-> "assistant", content |-> converted.text] >>

\* a run of the script in which "Generate Recipe" was clicked
GenerateRecipe(recipe_input, kitchen_temp, reply) ==
    /\ Cardinality(DOMAIN recipe_db) < MaxRecipes
    /\ IF recipe_input = ""
       THEN UNCHANGED <<chat_history, recipe_db, posts>>
       ELSE /\ posts' = posts + 1
            /\ StoreConverted(recipe_input,
                  convert_recipe_to_grams(generate_recipe(recipe_input, reply),
                                          kitchen_temp))
    /\ rendered' = NoResult
    /\ UNCHANGED <<args, ret>>

\* f"{quantity}" of the number_input value
FormatQuantity(quantity) == FormatTenths(Round1(NumOfRat(quantity)))

\* what the converter pane shows for a result
Render(selected_ingredient, quantity, unit, grams) ==
    IF grams # None
    THEN FormatQuantity(quantity) \o " " \o unit \o " of " \o selected_ingredient
            \o " = " \o FormatTenths(Round1(grams)) \o "g"
    ELSE "Cannot convert " \o selected_ingredient
            \o " with the selected unit. Please try another unit."

\* a run of the script in which "Convert to Grams" was clicked
ConvertButton(selected_ingredient, quantity, unit, convert_temp) ==
    /\ rendered' = Render(selected_ingredient, quantity, unit,
                          convert_to_grams(quantity, unit, selected_ingredient,
                                           convert_temp))
    /\ UNCHANGED <<chat_history, recipe_db, posts, args, ret>>

Next ==
    \/ \E recipe_input \in RecipeInputs, kitchen_temp \in KitchenTemps, reply \in Replies :
          GenerateRecipe(recipe_input, kitchen_temp, reply)
    \/ \E selected_ingredient \in UiIngredients, quantity \in UiQuantities,
          unit \in UiUnits, convert_temp \in UiTemps :
          ConvertButton(selected_ingredient, quantity, unit, convert_temp)

Spec == Init /\ [][Next]_vars

(***************************************************************************)
(* convert_to_grams on its own: one call on arguments drawn at the start.  *)
(***************************************************************************)
\* quantities n/d with n up to MaxQuantity
MaxQuantity == 2

\* temperatures 20 +- 5k with k up to MaxTempSteps
MaxTempSteps == 2

ConvQuantities == {Rat(n, d) : n \in 1..MaxQuantity, d \in {1, 3, 10}}

ConvTemps == {20 + 5 * k : k \in (0 - MaxTempSteps)..MaxTempSteps}

WeightUnits ==
    {"gram", "g", "grams", "kilogram", "kg", "kilograms",
     "ounce", "oz", "ounces", "pound", "lb", "pounds"}

ConvUnits ==
    DOMAIN get_conversion_factors \cup WeightUnits \cup
    {"each", "eachs", "teaspoonss", "pinch", "", "cup of", " Cup ", "TSP", "Teaspoons", "Each"}

ConvIngredients ==
    DOMAIN load_ingredients_db \cup
    {"unobtainium", "flour", "", " Butter ", "VANILLA EXTRACT", "Eggs"}

Pending == [done |-> FALSE]

Done(value) == [done |-> TRUE, value |-> value]

InitConv ==
    /\ chat_history = <<>>
    /\ recipe_db = [k \in {} |-> 0]
    /\ posts = 0
    /\ rendered = NoResult
    /\ args \in [quantity : ConvQuantities, unit : ConvUnits,
                 ingredient : ConvIngredients, temperature : ConvTemps]
    /\ ret = Pending

CallConvertToGrams ==
    /\ ~ret.done
    /\ ret' = Done(convert_to_grams(args.quantity, args.unit, args.ingredient,
                                    args.temperature))
    /\ UNCHANGED <<chat_history, recipe_db, posts, rendered, args>>

NextConv == CallConvertToGrams

SpecConv == InitConv /\ [][NextConv]_vars

(***************************************************************************)
(* convert_recipe_to_grams on its own: one call on a text drawn at the     *)
(* start.                                                                  *)
(***************************************************************************)
\* blocks of lines a text is made of
MaxBlocks == 2

AnnotTemps == {20, 30}

TextBlocks ==
    { "1 cup all-purpose flour, sifted",
      "",
      "  ",
      "Mix well.\n\n  3/4 cup milk, 2 tsp salt",
      "1/0 cup butter, 1 cup milk",
      "1 1/2 cups milk",
      "x 1 cup milk, 1 cup milk,",
      "1/2/3 cup milk, 1..2 cup milk, 2 oz butter",
      "2 pinch salt, 1 cup bread flour " }

RECURSIVE TextsOf(_)
TextsOf(n) ==
    IF n = 0 THEN {<<>>}
    ELSE {<<l>> \o t : l \in TextBlocks, t \in TextsOf(n - 1)}

RecipeTexts == UNION {{Join(t, "\n") : t \in TextsOf(n)} : n \in 1..MaxBlocks}

CallConvertRecipe ==
    /\ ~ret.done
    /\ ret' = Done(convert_recipe_to_grams(args.recipe_text, args.temperature))
    /\ UNCHANGED <<chat_history, recipe_db, posts, rendered, args>>

InitAnnot ==
    /\ chat_history = <<>>
    /\ recipe_db = [k \in {} |-> 0]
    /\ posts = 0
    /\ rendered = NoResult
    /\ args \in [recipe_text : RecipeTexts, temperature : AnnotTemps]
    /\ ret = Pending

NextAnnot == CallConvertRecipe

SpecAnnot == InitAnnot /\ [][NextAnnot]_vars

(***************************************************************************)
(* convert_recipe_to_grams on one-line texts "q u i" and "q u of i".       *)
(***************************************************************************)
PhraseQuantities == {"2", "1 1/2", "3/4"}

\* the volume-unit aliases that are one word
PhraseUnits == {u \in DOMAIN get_conversion_factors : ~Contains(u, " ")}

PhraseJoins == {" ", " of "}

InitPhrase ==
    /\ chat_history = <<>>
    /\ recipe_db = [k \in {} |-> 0]
    /\ posts = 0
    /\ rendered = NoResult
    /\ \E q \in PhraseQuantities, u \in PhraseUnits, j \in PhraseJoins,
          i \in DOMAIN load_ingredients_db, t \in AnnotTemps :
          args = [recipe_text |-> q \o " " \o u \o j \o i, temperature |-> t,
                  q |-> q, u |-> u, i |-> i]
    /\ ret = Pending

SpecPhrase == InitPhrase /\ [][NextAnnot]_vars

(***************************************************************************)
(* Properties of convert_to_grams, checked under SpecConv.                 *)
(***************************************************************************)
\* the unit and the ingredient of the call, trimmed and lower-cased
NormUnit == Strip(Lower(args.unit))

NormIngredient == Strip(Lower(args.ingredient))

KnownIngredient == NormIngredient \in DOMAIN load_ingredients_db

EntryOfCall == load_ingredients_db[NormIngredient]

\* the counted unit of a table entry and the counted unit + "s"
CountedUnits(entry) ==
    IF "unit" \in DOMAIN entry THEN {entry.unit, entry.unit \o "s"} ELSE {}

MassUnits ==
    {"g", "gram", "grams", "kg", "kilogram", "kilograms",
     "oz", "ounce", "ounces", "lb", "pound", "pounds"}

\* base * tf * k / 10
Deviation(base, tf, k) == NumMulDec(NumMulDec(NumMulNat(base, k), tf), Dec(1, 1))

\* g = base * (1 + tf * diff / 10)
IsAdjusted(g, base, tf, diff) ==
    IF diff >= 0
    THEN NumEq(g, NumAdd(base, Deviation(base, tf, diff)))
    ELSE NumEq(NumAdd(g, Deviation(base, tf, 0 - diff)), base)

\* quantity * density
TimesDensity(quantity, entry) == NumMulDec(NumOfRat(quantity), entry.density)

\* quantity * cupsPerUnit(unit) * density
CupsTimesDensity(quantity, unit, entry) ==
    NumMulDec(NumMulDec(NumOfRat(quantity), get_conversion_factors[unit]),
              entry.density)

\* the call repeated at another temperature
GramsAt(temperature) ==
    convert_to_grams(args.quantity, args.unit, args.ingredient, temperature)

\* the deviation from the value at 20 degrees is twice as large at twice the
\* temperature difference: g(20 + 2d) - g(20) = 2 * (g(20 + d) - g(20))
DeviationDoubles ==
    NumEq(NumAdd(GramsAt(20 + 2 * (args.temperature - 20)), GramsAt(20)),
          NumMulNat(ret.value, 2))

\* the result is the volume formula of the call
VolumeFormula ==
    /\ ret.value # None
    /\ IsAdjusted(ret.value, CupsTimesDensity(args.quantity, NormUnit, EntryOfCall),
                  EntryOfCall.temp_factor, args.temperature - 20)
    /\ (args.temperature = 20 /\ NormUnit = "cup")
          => NumEq(ret.value, TimesDensity(args.quantity, EntryOfCall))
    /\ DeviationDoubles

\* C3, as the claim states it: for a known ingredient and a volume-unit
\* alias u other than the ingredient's counted unit, the result is
\* q * cupsPerUnit(u) * density * (1 + tempFactor * (T - 20) / 10); at 20
\* degrees and unit "cup" it is q * density, and the deviation at twice the
\* temperature difference is twice the deviation.
C3_VolumeFormulaOriginal ==
    ret.done =>
        ( ( /\ KnownIngredient
            /\ NormUnit \in DOMAIN get_conversion_factors
            /\ ~("unit" \in DOMAIN EntryOfCall /\ NormUnit = EntryOfCall.unit) )
          => VolumeFormula )

\* C3, amended: the same formula for a known ingredient and a volume-unit
\* alias that is neither the ingredient's counted unit nor the counted
\* unit + "s".
C3_VolumeFormula ==
    ret.done =>
        ( ( /\ KnownIngredient
            /\ NormUnit \in DOMAIN get_conversion_factors
            /\ NormUnit \notin CountedUnits(EntryOfCall) )
          => VolumeFormula )

\* a tablespoon measure of honey converted in a warm kitchen
C3_Witness ==
    /\ ret.done
    /\ args.unit = "tbsp" /\ args.ingredient = "honey"
    /\ args.temperature = 30 /\ args.quantity = Rat(2, 3)
    /\ ret.value # None

\* C4: the result is None whenever the normalized ingredient is not in the
\* table, for every unit (mass units included) and temperature; for a known
\* ingredient it is None exactly when the normalized unit is neither the
\* ingredient's counted unit (or that + "s"), nor a volume alias, nor a mass
\* unit.
C4_NotConvertible ==
    ret.done =>
        /\ ~KnownIngredient => ret.value = None
        /\ KnownIngredient =>
              ( ret.value = None
                  <=> NormUnit \notin ( CountedUnits(EntryOfCall)
                                        \cup DOMAIN get_conversion_factors
                                        \cup MassUnits ) )

\* an unknown ingredient measured in a mass unit
C4_Witness ==
    /\ ret.done
    /\ args.ingredient = "unobtainium" /\ args.unit = "kg"
    /\ ret.value = None

\* C6: for an ingredient with a counted unit (eggs: each; vanilla extract and
\* yeast: teaspoon) and a normalized unit equal to it or to it + "s", the
\* result is quantity * density * (1 + tempFactor * (T - 20) / 10), also when
\* the unit is a volume alias: 2 teaspoon of vanilla extract at 20 degrees
\* are 8.4 grams.
C6_CountedUnitFirst ==
    /\ {i \in DOMAIN load_ingredients_db : "unit" \in DOMAIN load_ingredients_db[i]}
          = {"eggs", "vanilla extract", "yeast"}
    /\ load_ingredients_db["eggs"].unit = "each"
    /\ load_ingredients_db["vanilla extract"].unit = "teaspoon"
    /\ load_ingredients_db["yeast"].unit = "teaspoon"
    /\ ret.done =>
          /\ (KnownIngredient /\ NormUnit \in CountedUnits(EntryOfCall))
                => /\ ret.value # None
                   /\ IsAdjusted(ret.value, TimesDensity(args.quantity, EntryOfCall),
                                 EntryOfCall.temp_factor, args.temperature - 20)
          /\ ( /\ args.quantity = Rat(2, 1) /\ args.unit = "teaspoon"
               /\ args.ingredient = "vanilla extract" /\ args.temperature = 20 )
                => NumEq(ret.value, Num(<<4, 8>>, 1, 1))

\* 2 teaspoon of vanilla extract converted at 20 degrees
C6_Witness ==
    /\ ret.done
    /\ args.quantity = Rat(2, 1) /\ args.unit = "teaspoon"
    /\ args.ingredient = "vanilla extract" /\ args.temperature = 20
    /\ ret.value # None
    /\ Round1(ret.value) = 84

\* C9: for a known ingredient, every volume alias with the same cups-per-unit
\* multiplier as the unit of the call gives the same result as the call.
C9_Synonyms ==
    ret.done =>
        ( (KnownIngredient /\ NormUnit \in DOMAIN get_conversion_factors)
          => \A u \in DOMAIN get_conversion_factors :
                get_conversion_factors[u] = get_conversion_factors[NormUnit]
                   => NumEq(convert_to_grams(args.quantity, u, args.ingredient,
                                             args.temperature),
                            ret.value) )

(***************************************************************************)
(* Properties of convert_recipe_to_grams, checked under SpecAnnot.         *)
(***************************************************************************)
\* the lines of the text once leading and trailing whitespace is removed
StrippedLines == Split(Strip(args.recipe_text), "\n")

\* the lines of the text as given
GivenLines == Split(args.recipe_text, "\n")

\* the lines of the returned text
OutLines == Split(ret.value.text, "\n")

RECURSIVE DigitsEnd(_, _)
DigitsEnd(s, i) == IF IsDigit(Char(s, i)) THEN DigitsEnd(s, i + 1) ELSE i

\* the position after " (<digits>.<digit>g)" whose digits end before j
AnnotationEndFrom(s, i, j) ==
    IF /\ j > i + 2
       /\ Char(s, j) = "."
       /\ IsDigit(Char(s, j + 1))
       /\ Char(s, j + 2) = "g"
       /\ Char(s, j + 3) = ")"
    THEN j + 4
    ELSE 0

\* the position after the annotation that starts at i; 0 when none does
AnnotationEnd(s, i) ==
    IF Char(s, i) = " " /\ Char(s, i + 1) = "("
    THEN AnnotationEndFrom(s, i, DigitsEnd(s, i + 2))
    ELSE 0

\* s from i on, the annotations deleted
RECURSIVE WithoutAnnotations(_, _)
WithoutAnnotations(s, i) ==
    IF i > Len(s) THEN ""
    ELSE IF AnnotationEnd(s, i) # 0 THEN WithoutAnnotations(s, AnnotationEnd(s, i))
    ELSE Char(s, i) \o WithoutAnnotations(s, i + 1)

\* the number of annotations of s from i on
RECURSIVE CountAnnotations(_, _)
CountAnnotations(s, i) ==
    IF i > Len(s) THEN 0
    ELSE IF AnnotationEnd(s, i) # 0 THEN 1 + CountAnnotations(s, AnnotationEnd(s, i))
    ELSE CountAnnotations(s, i + 1)

\* the quantity text of a match, trimmed
QuantityText(line, m) == Strip(QuantityGroup(line, m))

\* the grams of a match: None when its quantity does not parse or the
\* converter gives None
GramsOfParsed(q, line, m, temperature) ==
    IF q.kind # "ok" THEN None
    ELSE convert_to_grams(q.val, UnitGroup(line, m), IngredientGroup(line, m),
                          temperature)

GramsOf(line, m, temperature) ==
    GramsOfParsed(ParseQuantity(QuantityText(line, m)), line, m, temperature)

\* the matches of a non-blank line
MatchesOf(line) == IF Strip(line) = "" THEN <<>> ELSE finditer(line)

\* how many matches of the line parse and convert
ConvertibleIn(line, ms, temperature) ==
    Cardinality({j \in 1..Len(ms) : GramsOf(line, ms[j], temperature) # None})

\* the ingredient phrase of a match is followed by a comma
EndsWithComma(line, m) == m.end = m.i_end + 1 /\ Char(line, m.i_end) = ","

\* the match without its terminator
Phrase(line, m) == SubSeq(line, m.start, m.i_end - 1)

\* C1: the annotation of a converted match stands right after the ingredient
\* phrase and before the terminating comma; "1 cup all-purpose flour, sifted"
\* at 20 degrees gives a line containing
\* "1 cup all-purpose flour (120.0g), sifted".
C1_BeforeComma ==
    ret.done =>
        /\ ~ret.value.raised
        /\ (args.recipe_text = "1 cup all-purpose flour, sifted" /\ args.temperature = 20)
              => Contains(ret.value.text, "1 cup all-purpose flour (120.0g), sifted")
        /\ Len(OutLines) = Len(StrippedLines)
        /\ \A k \in 1..Len(StrippedLines) :
              LET line == StrippedLines[k]
                  ms   == MatchesOf(line)
              IN  \A j \in 1..Len(ms) :
                     ( /\ EndsWithComma(line, ms[j])
                       /\ GramsOf(line, ms[j], args.temperature) # None )
                     => Contains(OutLines[k],
                                 Phrase(line, ms[j])
                                    \o Annotation(GramsOf(line, ms[j], args.temperature))
                                    \o ",")

\* output line k is input line k with annotations inserted, and a blank input
\* line is returned as it is
DerivedLines(in, out) ==
    /\ Len(out) = Len(in)
    /\ \A k \in 1..Len(in) :
          /\ Strip(in[k]) = "" => out[k] = in[k]
          /\ WithoutAnnotations(out[k], 1) = in[k]

IsQuantity(q, n, d) == q.kind = "ok" /\ q.val.n * d = n * q.val.d

\* a quantity text the parser must reject
Malformed(text) ==
    \/ text = "1/0"
    \/ Len(Split(text, "/")) > 2
    \/ Contains(text, "..")

\* what C5 says of one match of a line and of the output line
ParsedOrSkipped(line, m, q, out, temperature) ==
    /\ QuantityText(line, m) = "1 1/2" => IsQuantity(q, 3, 2)
    /\ QuantityText(line, m) = "3/4" => IsQuantity(q, 3, 4)
    /\ QuantityText(line, m) = "2" => IsQuantity(q, 2, 1)
    /\ Malformed(QuantityText(line, m)) => q.kind # "ok"
    /\ q.kind # "ok" => ~Contains(out, FullMatch(line, m) \o " (")
    /\ GramsOfParsed(q, line, m, temperature) # None
          => Contains(out, FullMatch(line, m)
                              \o Annotation(GramsOfParsed(q, line, m, temperature)))

\* C5: "1 1/2" parses to 1.5, "3/4" to 0.75, "2" to 2.0; "1/0", more than one
\* "/" and non-numeric parts fail; a failure is caught, the match inserts
\* nothing, the matches and lines after it are still annotated, and the
\* annotator returns.
C5_ParseFailuresSkipped ==
    ret.done =>
        /\ ~ret.value.raised
        /\ Len(OutLines) = Len(StrippedLines)
        /\ \A k \in 1..Len(StrippedLines) :
              LET line == StrippedLines[k]
                  ms   == MatchesOf(line)
              IN  \A j \in 1..Len(ms) :
                     ParsedOrSkipped(line, ms[j], ParseQuantity(QuantityText(line, ms[j])),
                                     OutLines[k], args.temperature)

\* a line whose first quantity is 1/0 and whose second match converts
C5_Witness ==
    /\ ret.done
    /\ args.recipe_text = "1/0 cup butter, 1 cup milk\n1/2/3 cup milk, 1..2 cup milk, 2 oz butter"
    /\ args.temperature = 20
    /\ ret.value = Returned("1/0 cup butter, 1 cup milk (242.0g)\n1/2/3 cup milk, 1..2 cup milk, 2 oz butter (56.7g)")

\* C7: a line only gets text inserted: one annotation per match that parses
\* and converts, put after the first occurrence of the match's text in the
\* line as modified so far, and nothing for the other matches; the number of
\* annotations is the number of convertible matches and deleting them gives
\* the input line, also when the same text occurs twice in the line.
C7_InsertOnly ==
    ret.done =>
        /\ ~ret.value.raised
        /\ Len(OutLines) = Len(StrippedLines)
        /\ \A k \in 1..Len(StrippedLines) :
              /\ WithoutAnnotations(OutLines[k], 1) = StrippedLines[k]
              /\ CountAnnotations(OutLines[k], 1)
                    = ConvertibleIn(StrippedLines[k], MatchesOf(StrippedLines[k]),
                                    args.temperature)
              /\ (StrippedLines[k] = "x 1 cup milk, 1 cup milk," /\ args.temperature = 20)
                    => OutLines[k] = "x 1 cup milk, (242.0g) (242.0g) 1 cup milk,"

\* a line in which the text of the first match occurs twice
C7_Witness ==
    /\ ret.done
    /\ args.recipe_text = "x 1 cup milk, 1 cup milk,"
    /\ args.temperature = 20
    /\ ret.value = Returned("x 1 cup milk, (242.0g) (242.0g) 1 cup milk,")

(***************************************************************************)
(* Property of convert_recipe_to_grams on phrases, checked under           *)
(* SpecPhrase.                                                             *)
(***************************************************************************)
\* C8: for every ingredient name i of the table, every one-word volume alias
\* u and every valid quantity text q, the one-line text "q u i" (and
\* "q u of i") comes back with " (<N>g)" appended, N being
\* convert_to_grams(parse(q), u, i, T) rounded to one decimal place.
C8_PhraseAnnotated ==
    ret.done =>
        ret.value = Returned(args.recipe_text
                                \o Annotation(convert_to_grams(ParseQuantity(args.q).val,
                                                               args.u, args.i,
                                                               args.temperature)))

(***************************************************************************)
(* Property of the session, checked under Spec.                            *)
(***************************************************************************)
SavedRecipes == Cardinality(DOMAIN recipe_db)

\* what C10 says of one step
SessionStep ==
    /\ Len(chat_history) = 2 * SavedRecipes
    /\ Len(chat_history') = 2 * SavedRecipes'
    /\ Len(chat_history') >= Len(chat_history)
    /\ SubSeq(chat_history', 1, Len(chat_history)) = chat_history
    /\ DOMAIN recipe_db \subseteq DOMAIN recipe_db'
    /\ \A k \in DOMAIN recipe_db : recipe_db'[k] = recipe_db[k]
    /\ posts' \in {posts, posts + 1}
    /\ posts' = posts => (chat_history' = chat_history /\ recipe_db' = recipe_db)
    /\ posts' = posts + 1 =>
          /\ Len(chat_history') = Len(chat_history) + 2
          /\ chat_history'[Len(chat_history) + 1].role = "user"
          /\ chat_history'[Len(chat_history) + 2].role = "assistant"
          /\ Cardinality(DOMAIN recipe_db' \ DOMAIN recipe_db) = 1
          /\ \A k \in DOMAIN recipe_db' \ DOMAIN recipe_db :
                recipe_db'[k].recipe = chat_history'[Len(chat_history) + 2].content

====
